---- MODULE Spec2Model ----
(***************************************************************************)
(* SpendWise budget forecasting engine: BudgetPredictor                    *)
(* (app/ml/predictor.py), PredictionService                                *)
(* (app/services/prediction_service.py) and the prediction routes          *)
(* (app/routes/predictions.py), over the transactions table and the        *)
(* requests that write it (app/routes/transactions.py,                     *)
(* app/services/transaction_service.py).                                   *)
(*                                                                         *)
(* The specifications share the variables:                                   *)
(*   SpecPredictor  one BudgetPredictor driven call by call                *)
(*   SpecCalc       the date arithmetic, the recommendation rule and       *)
(*                  prepare_features on chosen values                      *)
(*   Spec           concurrent budget, forecast and train-model requests   *)
(*                  over a fixed ledger and clock                          *)
(*   SpecForecast   one forecast request, pass by pass, beside requests    *)
(*                  that write transactions and a running clock            *)
(*   SpecTransactions  the transaction routes and their responses          *)
(*   SpecLedger     one prediction request at any point of a sequence of   *)
(*                  transaction writes                                     *)
(*   SpecGoals      savings goals: creation, deposits, updates and the     *)
(*                  hourly job (app/routes/goals.py,                       *)
(*                  app/utils/scheduler.py)                                *)
(*                                                                         *)
(* Money is counted in hundredths (cents): 10000.0 is 1000000.             *)
(* A date is a day number in a calendar of 30-day months; the code's own   *)
(* history window is months_back * 30 days.                                *)
(***************************************************************************)
EXTENDS Integers, Sequences, FiniteSets, TLC

\* ---------------------------------------------------------------- bounds
NumUsers == 2
NumProcs == 2
MaxRows == 3
MaxAhead == 2
MaxProbe == 5
MaxInstances == 2
MaxCreated == 1
MaxOffset == 25
MaxRecords == 6
MaxMonths == 11
MaxGoals == 2
MaxDeposits == 2

\* ------------------------------------------------------ program constants
DefaultBudget == 1000000
DefaultAvgAmount == 200000
DefaultCategoryDiversity == 5
DefaultTransactionCount == 20
MinMonths == 3
MinRecords == 3
HistoryMonthsBack == 12
DaysPerMonth == 30
MonthsPerYear == 12

Users == 1..NumUsers
Procs == 1..NumProcs

\* A value too large for float64 (inf): sklearn's input validation rejects it.
INF == 2^30
IsFinite(x) == x # INF

None == [kind |-> "none"]

\* ------------------------------------------------------------- calendar
YearOf(d) == d \div (DaysPerMonth * MonthsPerYear)
MonthOf(d) == ((d \div DaysPerMonth) % MonthsPerYear) + 1
\* Months since the epoch: the (year, month) bucket of a date as one number.
MonthIndex(year, month) == MonthsPerYear * year + month
BucketOf(d) == MonthIndex(YearOf(d), MonthOf(d))

\* ------------------------------------------------------------ arithmetic
RECURSIVE SumFinite(_)
SumFinite(rows) ==
    IF rows = {} THEN 0
    ELSE LET x == CHOOSE y \in rows : TRUE
         IN  x.amount + SumFinite(rows \ {x})

Abs(x) == IF x < 0 THEN 0 - x ELSE x
Max(a, b) == IF a >= b THEN a ELSE b

\* pandas sum: any inf makes the sum inf.
SumAmounts(rows) ==
    IF \E r \in rows : ~IsFinite(r.amount) THEN INF
    ELSE SumFinite(rows)

\* DataFrame.round(2): the mean to the nearest cent, ties to even.
Round2(num, den) ==
    LET q == num \div den
        r == num % den
    IN  IF 2 * r > den THEN q + 1
        ELSE IF 2 * r < den THEN q
        ELSE IF q % 2 = 0 THEN q ELSE q + 1

MeanRounded(rows) ==
    IF SumAmounts(rows) = INF THEN INF
    ELSE Round2(SumAmounts(rows), Cardinality(rows))

\* ---------------------------------------------------- BudgetPredictor
\* One row of monthly_data: the aggregates of the records of one (year,
\* month) group, under the column names the code gives them.
MonthlyRow(rows, b) ==
    LET g == {r \in rows : BucketOf(r.date) = b}
        d == (CHOOSE r \in g : TRUE).date
    IN  [month |-> MonthOf(d), year |-> YearOf(d),
         avg_amount |-> MeanRounded(g),
         category_diversity |-> Cardinality({r.category : r \in g}),
         transaction_count |-> Cardinality(g),
         total_expense |-> SumAmounts(g)]

RECURSIVE SortedBuckets(_)
SortedBuckets(B) ==
    IF B = {} THEN << >>
    ELSE LET m == CHOOSE x \in B : \A y \in B : x <= y
         IN  <<m>> \o SortedBuckets(B \ {m})

monthly_dataZeroFilled(rows) ==
    IF rows = {} THEN << >>
    ELSE LET B == {BucketOf(r.date) : r \in rows}
             lo == CHOOSE x \in B : \A z \in B : x <= z
             hi == CHOOSE x \in B : \A z \in B : x >= z
         IN  [i \in 1..(hi - lo + 1) |->
                IF lo + i - 1 \in B THEN MonthlyRow(rows, lo + i - 1)
                ELSE [month |-> ((lo + i - 2) % MonthsPerYear) + 1,
                      year |-> (lo + i - 2) \div MonthsPerYear,
                      avg_amount |-> 0, category_diversity |-> 0,
                      transaction_count |-> 0, total_expense |-> 0]]

\* monthly_data: one row per (year, month) present in the records, in
\* ascending group-by order.
monthly_data(rows) ==
    LET bs == SortedBuckets({BucketOf(r.date) : r \in rows})
    IN  [i \in 1..Len(bs) |-> MonthlyRow(rows, bs[i])]

features_appendSwapped(row) ==
    <<row.month, row.year, row.transaction_count, row.category_diversity,
      row.avg_amount>>

\* features.append([row['month'], row['year'], row['avg_amount'],
\*                  row['category_diversity'], row['transaction_count']])
features_append(row) ==
    <<row.month, row.year, row.avg_amount, row.category_diversity,
      row.transaction_count>>

\* prepare_features: the feature matrix X, one positional vector per monthly
\* row, and the targets y, the month's total_expense.
prepare_features(rows) ==
    LET md == monthly_data(rows)
    IN  [X |-> [i \in 1..Len(md) |-> features_append(md[i])],
         y |-> [i \in 1..Len(md) |-> md[i].total_expense]]

\* The places of a feature vector, as the fitted pipeline reads them.
MonthAt == 1
YearAt == 2
AvgAmountAt == 3
CategoryDiversityAt == 4
TransactionCountAt == 5

\* train_test_split(test_size=0.2, random_state=42): the seed fixes one
\* permutation per sample count; the first ceil(0.2 n) places are the test
\* rows and the rest the training rows.
Shuffle(n) ==
    IF n = 3 THEN <<1, 2, 3>>
    ELSE IF n = 4 THEN <<2, 4, 1, 3>>
    ELSE IF n = 5 THEN <<2, 5, 3, 1, 4>>
    ELSE [i \in 1..n |-> i]

TestCountRounded(n) == Max(1, (2 * n + 5) \div 10)

\* test_size=0.2: n_test = ceil(0.2 * n), n_train = n - n_test.
TestCount(n) == (n + 4) \div 5
TrainCount(n) == n - TestCount(n)

train_test_split(X, y) ==
    LET n == Len(X)
        p == Shuffle(n)
    IN  [X_test  |-> [i \in 1..TestCount(n) |-> X[p[i]]],
         y_test  |-> [i \in 1..TestCount(n) |-> y[p[i]]],
         X_train |-> [i \in 1..TrainCount(n) |-> X[p[TestCount(n) + i]]],
         y_train |-> [i \in 1..TrainCount(n) |-> y[p[TestCount(n) + i]]]]

\* sklearn's check_array: every entry of the vector is a finite number.
RowFinite(x) == \A k \in 1..Len(x) : IsFinite(x[k])
AllFinite(X, y) == \A i \in 1..Len(X) : RowFinite(X[i]) /\ IsFinite(y[i])

\* Pipeline([...]) before fit, and after a fit that raised.
Unfitted == [kind |-> "unfitted"]

\* Pipeline.fit(X_train, y_train).  The fitted parameters are a fixed
\* function of the training rows; this linear stand-in for the scaler and
\* the elastic net keeps that, the dependence on every feature but the
\* category diversity, and the possibility of a negative output.
Fit(X_train, y_train) ==
    LET n == Len(X_train)
        first == X_train[1]
        last == X_train[n]
        dt == MonthIndex(last[YearAt], last[MonthAt])
                - MonthIndex(first[YearAt], first[MonthAt])
    IN  [kind |-> "fitted",
         anchor |-> last,
         intercept |-> y_train[n],
         slope |-> (y_train[n] - y_train[1]) \div dt]

Raw(m, x) ==
    m.intercept
      + m.slope * (MonthIndex(x[YearAt], x[MonthAt])
                     - MonthIndex(m.anchor[YearAt], m.anchor[MonthAt]))
      + m.anchor[TransactionCountAt] * (x[AvgAmountAt] - m.anchor[AvgAmountAt])
      + m.anchor[AvgAmountAt] * (x[TransactionCountAt] - m.anchor[TransactionCountAt])

NewPipelineFitWarmStart(previous, X_train, y_train) ==
    IF previous.kind = "fitted"
    THEN [Fit(X_train, y_train) EXCEPT !.intercept = (@ + previous.intercept) \div 2]
    ELSE Fit(X_train, y_train)

\* self.model = Pipeline([...]); self.model.fit(X_train, y_train): the
\* pipeline that is fitted is a new one, whatever self.model held before.
NewPipelineFit(previous, X_train, y_train) == Fit(X_train, y_train)

\* Pipeline.predict(features): raises on a pipeline that is not fitted (or
\* on no pipeline at all) and on a non-finite feature.
ModelPredict(m, x) ==
    IF m.kind = "fitted" /\ RowFinite(x)
    THEN [ok |-> TRUE, value |-> Raw(m, x)]
    ELSE [ok |-> FALSE, value |-> 0]

RECURSIVE SumAbsErr(_, _, _, _)
SumAbsErr(m, X_test, y_test, i) ==
    IF i > Len(X_test) THEN 0
    ELSE Abs(y_test[i] - ModelPredict(m, X_test[i]).value)
           + SumAbsErr(m, X_test, y_test, i + 1)

\* mean_absolute_error and r2_score on the held-out rows; r2_score of fewer
\* than two samples is nan.
Metrics(m, split) ==
    [mae |-> SumAbsErr(m, split.X_test, split.y_test, 1) \div Len(split.X_test),
     r2_defined |-> Len(split.X_test) >= 2,
     training_samples |-> Len(split.X_train),
     test_samples |-> Len(split.X_test)]

NoMetrics == [mae |-> 0, r2_defined |-> FALSE, training_samples |-> 0, test_samples |-> 0]

\* BudgetPredictor.__init__
NewPredictor == [is_trained |-> FALSE, model |-> None]

\* train_model up to the call of save_model: the new state of the
\* predictor and how far the method got.
\*   "no_transactions", "need_3_months": ValueError before any assignment
\*   "fit_error":  self.model is the new pipeline, fit raised
\*   "eval_error": fit succeeded, predict(X_test) or the metrics raised
\*   "fitted":     is_trained set, save_model is next
TooFewMonthsOffByOne(X) == Len(X) <= MinMonths

\* if len(X) < 3: raise ValueError("Need at least 3 months of data to train")
TooFewMonths(X) == Len(X) < MinMonths

TrainLocal(pred, rows) ==
    IF rows = {} THEN
        [pred |-> pred, outcome |-> "no_transactions", metrics |-> NoMetrics]
    ELSE LET f == prepare_features(rows) IN
    IF TooFewMonths(f.X) THEN
        [pred |-> pred, outcome |-> "need_3_months", metrics |-> NoMetrics]
    ELSE LET split == train_test_split(f.X, f.y)
             fitted == NewPipelineFit(pred.model, split.X_train, split.y_train) IN
    IF ~AllFinite(split.X_train, split.y_train) THEN
        [pred |-> [pred EXCEPT !.model = Unfitted],
         outcome |-> "fit_error", metrics |-> NoMetrics]
    ELSE IF ~AllFinite(split.X_test, split.y_test) THEN
        [pred |-> [pred EXCEPT !.model = fitted],
         outcome |-> "eval_error", metrics |-> NoMetrics]
    ELSE
        [pred |-> [pred EXCEPT !.model = fitted, !.is_trained = TRUE],
         outcome |-> "fitted",
         metrics |-> Metrics(fitted, split)]

\* An optional argument left out (None).
NoArg == 0 - 1
OrDefault(x, d) == IF x = NoArg THEN d ELSE x

NotTrainedByModel(pred) == pred.model = None

\* if not self.is_trained
NotTrained(pred) == ~pred.is_trained

NonNegativeUnclamped(prediction) == prediction

\* max(0.0, float(prediction))
NonNegative(prediction) == Max(0, prediction)

OnInferenceErrorReraise(pred) ==
    [value |-> 0, consulted |-> TRUE, failed |-> TRUE, raised |-> TRUE, pred |-> pred]

\* except Exception: log and return the default; nothing is re-raised.
OnInferenceError(pred) ==
    [value |-> DefaultBudget, consulted |-> TRUE, failed |-> TRUE,
     raised |-> FALSE, pred |-> pred]

\* np.array([[month, year, avg_amount, category_diversity, transaction_count]])
PredictionFeatures(month, year, avg_amount, category_diversity, transaction_count) ==
    <<month, year, avg_amount, category_diversity, transaction_count>>

\* predict_budget: the value returned, whether self.model.predict was
\* called, whether it raised, whether an exception left the method, and the
\* predictor as the call leaves it.
predict_budget(pred, month, year, avg_amount, category_diversity, transaction_count) ==
    IF NotTrained(pred) THEN
        [value |-> DefaultBudget, consulted |-> FALSE, failed |-> FALSE,
         raised |-> FALSE, pred |-> pred]
    ELSE
        LET features == PredictionFeatures(
                            month, year,
                            OrDefault(avg_amount, DefaultAvgAmount),
                            OrDefault(category_diversity, DefaultCategoryDiversity),
                            OrDefault(transaction_count, DefaultTransactionCount))
            out == ModelPredict(pred.model, features)
        IN  IF out.ok
            THEN [value |-> NonNegative(out.value), consulted |-> TRUE,
                  failed |-> FALSE, raised |-> FALSE, pred |-> pred]
            ELSE OnInferenceError(pred)

\* ------------------------------------------------------- the model file
\* The artifact at model_path: absent, a complete pickle of a model
\* (model |-> the pickle), a file
\* some save_model is still writing ("partial"), or a file no load can read
\* ("corrupt").  torn: a second writer opened the file while one was writing.
NoPickle == << >>
NoArtifact == [state |-> "absent", model |-> NoPickle, torn |-> FALSE]

\* joblib.dump(self.model, path): the pickle of the pipeline, its class and
\* the attributes of its steps written out one after the other.
joblib_dump(model) ==
    IF model.kind = "fitted"
    THEN <<"Pipeline", "fitted", model.anchor, model.intercept, model.slope>>
    ELSE <<"Pipeline", model.kind>>

joblib_loadWithoutSlope(pickle) ==
    IF pickle[2] = "fitted"
    THEN [kind |-> "fitted", anchor |-> pickle[3], intercept |-> pickle[4],
          slope |-> 0]
    ELSE [kind |-> pickle[2]]

\* joblib.load(path) of a complete pickle: the pipeline rebuilt from it.
joblib_load(pickle) ==
    IF pickle[2] = "fitted"
    THEN [kind |-> "fitted", anchor |-> pickle[3], intercept |-> pickle[4],
          slope |-> pickle[5]]
    ELSE [kind |-> pickle[2]]

load_modelEager(pred, file) ==
    IF file.state \in {"absent", "valid"} THEN
        [pred |-> [pred EXCEPT !.model = IF file.state = "valid"
                                         THEN joblib_load(file.model) ELSE None,
                               !.is_trained = TRUE],
         ret |-> TRUE, raised |-> FALSE]
    ELSE
        [pred |-> pred, ret |-> FALSE, raised |-> TRUE]

load_modelResetting(pred, file) ==
    IF file.state = "absent" THEN
        [pred |-> [pred EXCEPT !.model = None, !.is_trained = FALSE],
         ret |-> FALSE, raised |-> FALSE]
    ELSE IF file.state = "valid" THEN
        [pred |-> [pred EXCEPT !.model = joblib_load(file.model), !.is_trained = TRUE],
         ret |-> TRUE, raised |-> FALSE]
    ELSE
        [pred |-> pred, ret |-> FALSE, raised |-> TRUE]

\* load_model: os.path.exists, then joblib.load, which raises on a file
\* that is not a complete pickle, before anything is assigned.
load_model(pred, file) ==
    IF file.state = "absent" THEN
        [pred |-> pred, ret |-> FALSE, raised |-> FALSE]
    ELSE IF file.state = "valid" THEN
        [pred |-> [pred EXCEPT !.model = joblib_load(file.model), !.is_trained = TRUE],
         ret |-> TRUE, raised |-> FALSE]
    ELSE
        [pred |-> pred, ret |-> FALSE, raised |-> TRUE]

\* save_model, first half: makedirs and opening the file for writing, which
\* empties it.  inside: another save_model has the file open.
OpenForWrite(inside) == [state |-> "partial", model |-> NoPickle, torn |-> inside]

\* save_model, second half: the files joblib.dump may leave behind.  A dump
\* that fails leaves an incomplete file; while another writer is inside the
\* file is still being written; two dumps that overlapped leave the last
\* one's pickle or bytes of both.
AfterDump(file, model, written, inside) ==
    IF inside THEN {[state |-> "partial", model |-> NoPickle, torn |-> TRUE]}
    ELSE IF ~written THEN {[state |-> "corrupt", model |-> NoPickle, torn |-> FALSE]}
    ELSE IF file.torn THEN {[state |-> "valid", model |-> joblib_dump(model), torn |-> FALSE],
                            [state |-> "corrupt", model |-> NoPickle, torn |-> FALSE]}
    ELSE {[state |-> "valid", model |-> joblib_dump(model), torn |-> FALSE]}

\* ---------------------------------------------------- PredictionService
VARIABLES
    now,           \* datetime.now(), a day number
    transactions,  \* the transactions table
    store,         \* the file at model_path
    pc,            \* where each request is
    req,           \* each request: endpoint, current_user.id, months_ahead
    predictor,     \* service.predictor of each request
    train_outcome, \* what the request's training cycle came to
    result,        \* each request's response
    bp,            \* the BudgetPredictor a script drives directly
    call,          \* the script's last call and what it returned
    loop,          \* get_forecast's loop: its locals and its session's objects
    savings_goals  \* the savings_goals table

vars == <<now, transactions, store, pc, req, predictor, train_outcome, result, bp, call,
          loop, savings_goals>>

ExpenseWithDeleted(rows, user_id) ==
    {r \in rows : r.user_id = user_id /\ r.type = "expense"}

\* .filter(Transaction.user_id == user_id, Transaction.type == "expense",
\*         Transaction.is_active == True)
Expense(rows, user_id) ==
    {r \in rows : r.user_id = user_id /\ r.type = "expense" /\ r.is_active}

get_historical_transactions(rows, today, user_id) ==
    {r \in Expense(rows, user_id) :
        r.date >= today - HistoryMonthsBack * DaysPerMonth}

\* datetime(year, month, 1)
FirstOfMonth(year, month) == (MonthsPerYear * year + (month - 1)) * DaysPerMonth

CurrentMonthRows(rows, today, user_id) ==
    LET y == YearOf(today)
        m == MonthOf(today)
    IN  {r \in Expense(rows, user_id) :
            /\ r.date >= FirstOfMonth(y, m)
            /\ r.date < (IF m < MonthsPerYear THEN FirstOfMonth(y, m + 1)
                         ELSE FirstOfMonth(y + 1, 1))}

\* The current-month statistics both endpoints pass to predict_budget.
CurrentStats(cur) ==
    [avg_amount |-> IF cur # {} THEN SumAmounts(cur) \div Cardinality(cur)
                    ELSE DefaultAvgAmount,
     category_diversity |-> IF cur # {} THEN Cardinality({r.category : r \in cur})
                            ELSE DefaultCategoryDiversity,
     transaction_count |-> Cardinality(cur)]

RecommendationInclusive(predicted_budget, current_month_expense) ==
    IF 10 * predicted_budget >= 11 * current_month_expense THEN "Increase"
    ELSE IF 10 * Abs(predicted_budget - current_month_expense) <= current_month_expense
    THEN "Maintain"
    ELSE "Reduce"

\* "Increase" if predicted_budget > current_month_expense * 1.1 else
\* "Maintain" if abs(predicted_budget - current_month_expense) <
\* current_month_expense * 0.1 else "Reduce", on amounts in cents.
Recommendation(predicted_budget, current_month_expense) ==
    IF 10 * predicted_budget > 11 * current_month_expense THEN "Increase"
    ELSE IF 10 * Abs(predicted_budget - current_month_expense) < current_month_expense
    THEN "Maintain"
    ELSE "Reduce"

\* next_month and next_year of predict_next_month_budget.
NextMonthTarget(current_month, current_year) ==
    [month |-> IF current_month < MonthsPerYear THEN current_month + 1 ELSE 1,
     year |-> IF current_month < MonthsPerYear THEN current_year
              ELSE current_year + 1]

predict_next_month_budget(pred, rows, today, user_id) ==
    LET cur == CurrentMonthRows(rows, today, user_id)
        st == CurrentStats(cur)
        next == NextMonthTarget(MonthOf(today), YearOf(today))
        out == predict_budget(pred, next.month, next.year, st.avg_amount,
                              st.category_diversity, st.transaction_count)
        current_month_expense == SumAmounts(cur)
    IN  [predicted_budget |-> out.value,
         current_month_spending |-> current_month_expense,
         next_month |-> next.month,
         next_year |-> next.year,
         recommendation |-> Recommendation(out.value, current_month_expense)]

NormalizeMonthOnce(target_month, target_year) ==
    IF target_month > MonthsPerYear
    THEN [month |-> target_month - MonthsPerYear, year |-> target_year + 1]
    ELSE [month |-> target_month, year |-> target_year]

\* while target_month > 12: target_month -= 12; target_year += 1
RECURSIVE NormalizeMonth(_, _)
NormalizeMonth(target_month, target_year) ==
    IF target_month > MonthsPerYear
    THEN NormalizeMonth(target_month - MonthsPerYear, target_year + 1)
    ELSE [month |-> target_month, year |-> target_year]

\* One pass of the forecast loop: the target month and its prediction.
ForecastPoint(pred, rows, today, user_id, i) ==
    LET t == NormalizeMonth(MonthOf(today) + i, YearOf(today))
        st == CurrentStats(CurrentMonthRows(rows, today, user_id))
        out == predict_budget(pred, t.month, t.year, st.avg_amount,
                              st.category_diversity, st.transaction_count)
    IN  [month |-> t.month, year |-> t.year, predicted_budget |-> out.value]

get_forecast_points(pred, rows, today, user_id, months_ahead) ==
    [i \in 1..months_ahead |-> ForecastPoint(pred, rows, today, user_id, i)]

\* ------------------------------------------------------------ the ledger
\* Each user's history is the first k rows of a fixed series, one row every
\* Gap days back from today, on top of three rows every query must leave
\* out: an income, a soft-deleted expense and an expense older than the
\* history window.
Gap(u) == IF u = 1 THEN DaysPerMonth ELSE 5
Amount(u, i) == IF u = 1 THEN i * 100000 ELSE 40000 + i * 10000

SeedRow(u, i, today) ==
    [id |-> 10 * u + i, user_id |-> u, amount |-> Amount(u, i),
     category |-> IF i % 2 = 1 THEN "Food" ELSE "Rent",
     type |-> "expense", date |-> today - (i - 1) * Gap(u), is_active |-> TRUE]

Background(u, today) ==
    {[id |-> 10 * u + 7, user_id |-> u, amount |-> 500000, category |-> "Salary",
      type |-> "income", date |-> today, is_active |-> TRUE],
     [id |-> 10 * u + 8, user_id |-> u, amount |-> 77700, category |-> "Fun",
      type |-> "expense", date |-> today, is_active |-> FALSE],
     [id |-> 10 * u + 9, user_id |-> u, amount |-> 900000, category |-> "Rent",
      type |-> "expense", date |-> today - 400, is_active |-> TRUE]}

Ledger(k, today) ==
    UNION {Background(u, today) \cup {SeedRow(u, i, today) : i \in 1..k[u]} : u \in Users}

\* The fifteenth of November and of December of year 6.
Todays == {FirstOfMonth(6, 11) + 14, FirstOfMonth(6, 12) + 14}

\* -------------------------------------------------------------- requests
Endpoints == {"budget", "forecast", "train"}

NoRequest == [endpoint |-> "none", user_id |-> 0, months_ahead |-> 0]
NoResult == [status |-> "none", what |-> "none", body |-> None]
Ok(what, body) == [status |-> "ok", what |-> what, body |-> body]
Error(what) == [status |-> "error", what |-> what, body |-> None]

\* Before the first pass of the loop: nothing forecast, no clock read, no
\* Transaction object in the session.
NoLoop == [i |-> 0, started |-> 0, forecasts |-> << >>, stats |-> << >>, loaded |-> {}]

IdleRequests ==
    /\ savings_goals = {}
    /\ loop = [p \in Procs |-> NoLoop]
    /\ pc = [p \in Procs |-> "idle"]
    /\ req = [p \in Procs |-> NoRequest]
    /\ predictor = [p \in Procs |-> NewPredictor]
    /\ train_outcome = [p \in Procs |-> "none"]
    /\ result = [p \in Procs |-> NoResult]

NoCall ==
    [op |-> "none", ids |-> {}, months |-> 0, records |-> 0, finite |-> TRUE,
     args |-> << >>,
     outcome |-> "none", ret |-> FALSE, before |-> NewPredictor,
     value |-> 0, consulted |-> FALSE, failed |-> FALSE, raised |-> FALSE,
     metrics |-> NoMetrics]

Init ==
    /\ now \in Todays
    /\ \E k \in [Users -> 0..MaxRows] : transactions = Ledger(k, now)
    /\ store = NoArtifact
    /\ IdleRequests
    /\ bp = [pred |-> NewPredictor, inst |-> 1]
    /\ call = NoCall

NeedsTrainingAlways(pred) == TRUE

\* if not service.predictor.is_trained: the auto-training of
\* get_budget_prediction and get_forecast.
NeedsTraining(pred) == ~pred.is_trained

OthersSaving(p) == \E q \in Procs \ {p} : pc[q] = "saving"

\* PredictionService(db): a new BudgetPredictor, then load_existing_model.
\* An exception of joblib.load leaves the endpoint as a server error.
Construct(p, endpoint, user_id, months_ahead) ==
    /\ pc[p] = "idle"
    /\ endpoint = "forecast" \/ months_ahead = 0
    /\ req' = [req EXCEPT ![p] = [endpoint |-> endpoint, user_id |-> user_id,
                                  months_ahead |-> months_ahead]]
    /\ LET l == load_model(NewPredictor, store)
       IN  /\ predictor' = [predictor EXCEPT ![p] = l.pred]
           /\ pc' = [pc EXCEPT ![p] = IF l.raised THEN "done" ELSE "constructed"]
           /\ result' = [result EXCEPT ![p] = IF l.raised THEN Error("load_failed")
                                              ELSE NoResult]
    /\ UNCHANGED <<savings_goals, now, transactions, store, train_outcome, bp, call, loop>>

\* How train_model_for_user ends for its caller: train_budget_model returns
\* the result or lets the exception through; get_budget_prediction and
\* get_forecast catch every exception and go on.
TrainingEnds(p, raised, what, body) ==
    IF req[p].endpoint = "train"
    THEN /\ pc' = [pc EXCEPT ![p] = "done"]
         /\ result' = [result EXCEPT ![p] = IF raised THEN Error(what) ELSE Ok(what, body)]
    ELSE /\ pc' = [pc EXCEPT ![p] = "ready"]
         /\ result' = [result EXCEPT ![p] = NoResult]

\* train_model_for_user, through predictor.train_model, up to save_model
\* opening the file.
TrainForUser(p) ==
    /\ pc[p] = "constructed"
    /\ req[p].endpoint = "train" \/ NeedsTraining(predictor[p])
    /\ LET hist == get_historical_transactions(transactions, now, req[p].user_id)
           t == TrainLocal(predictor[p], hist)
       IN  IF Cardinality(hist) < MinRecords THEN
               /\ train_outcome' = [train_outcome EXCEPT ![p] = "message"]
               /\ TrainingEnds(p, FALSE, "message",
                               [training_samples |-> Cardinality(hist)])
               /\ UNCHANGED <<predictor, store>>
           ELSE IF t.outcome # "fitted" THEN
               /\ predictor' = [predictor EXCEPT ![p] = t.pred]
               /\ train_outcome' = [train_outcome EXCEPT ![p] = t.outcome]
               /\ TrainingEnds(p, TRUE, t.outcome, None)
               /\ UNCHANGED store
           ELSE
               /\ predictor' = [predictor EXCEPT ![p] = t.pred]
               /\ \E opened \in BOOLEAN :
                    IF opened THEN
                        /\ store' = OpenForWrite(OthersSaving(p))
                        /\ pc' = [pc EXCEPT ![p] = "saving"]
                        /\ train_outcome' = [train_outcome EXCEPT ![p] = "saving"]
                        /\ result' = [result EXCEPT ![p] =
                                        [status |-> "pending", what |-> "metrics",
                                         body |-> t.metrics]]
                    ELSE
                        /\ train_outcome' = [train_outcome EXCEPT ![p] = "save_failed"]
                        /\ TrainingEnds(p, TRUE, "save_failed", None)
                        /\ UNCHANGED store
    /\ UNCHANGED <<savings_goals, now, transactions, req, bp, call, loop>>

\* joblib.dump finishing (or failing), and train_model returning its metrics.
SaveEnd(p) ==
    /\ pc[p] = "saving"
    /\ \E written \in BOOLEAN :
         /\ store' \in AfterDump(store, predictor[p].model, written, OthersSaving(p))
         /\ train_outcome' = [train_outcome EXCEPT ![p] =
                                IF written THEN "saved" ELSE "save_failed"]
         /\ TrainingEnds(p, ~written, IF written THEN "metrics" ELSE "save_failed",
                         result[p].body)
    /\ UNCHANGED <<savings_goals, now, transactions, req, predictor, bp, call, loop>>

\* The rest of get_budget_prediction and of get_forecast.
Predict(p) ==
    /\ req[p].endpoint \in {"budget", "forecast"}
    /\ pc[p] = "ready" \/ (pc[p] = "constructed" /\ ~NeedsTraining(predictor[p]))
    /\ pc' = [pc EXCEPT ![p] = "done"]
    /\ result' = [result EXCEPT ![p] =
         IF req[p].endpoint = "budget"
         THEN Ok("prediction",
                 predict_next_month_budget(predictor[p], transactions, now,
                                           req[p].user_id))
         ELSE Ok("forecast",
                 get_forecast_points(predictor[p], transactions, now,
                                     req[p].user_id, req[p].months_ahead))]
    /\ UNCHANGED <<savings_goals, now, transactions, store, req, predictor, train_outcome, bp, call, loop>>

Next ==
    \/ \E p \in Procs, e \in Endpoints, u \in Users, n \in 0..MaxAhead :
         Construct(p, e, u, n)
    \/ \E p \in Procs : TrainForUser(p)
    \/ \E p \in Procs : SaveEnd(p)
    \/ \E p \in Procs : Predict(p)

Spec == Init /\ [][Next]_vars

\* ------------------------------------- the forecast loop, pass by pass
\* get_forecast reads the clock and queries the current month's
\* transactions anew in every pass of its loop, while other requests commit
\* to the transactions table and the clock runs.  (Under Spec neither
\* changes during a request, so there Predict takes the loop in one step.)

\* What a query for Transaction objects gives this request: the rows the
\* database selects now, but an object the session already holds keeps the
\* attribute values it was first loaded with.
SessionView(rows, loaded) ==
    {IF \E l \in loaded : l.id = r.id
     THEN LET l == CHOOSE l \in loaded : l.id = r.id
          IN  [r EXCEPT !.amount = l.amount, !.category = l.category]
     ELSE r : r \in rows}

\* One pass of `for i in range(1, months_ahead + 1)`, and the return after
\* the last one.
ForecastStep(p) ==
    /\ req[p].endpoint = "forecast"
    /\ \/ pc[p] \in {"ready", "looping"}
       \/ pc[p] = "constructed" /\ ~NeedsTraining(predictor[p])
    /\ LET i == loop[p].i + 1
           user_id == req[p].user_id
           view == SessionView(transactions, loop[p].loaded)
           current_month_transactions == CurrentMonthRows(view, now, user_id)
           forecasts == Append(loop[p].forecasts,
                               ForecastPoint(predictor[p], view, now, user_id, i))
       IN  IF i > req[p].months_ahead THEN
               /\ pc' = [pc EXCEPT ![p] = "done"]
               /\ result' = [result EXCEPT ![p] = Ok("forecast", loop[p].forecasts)]
               /\ UNCHANGED loop
           ELSE
               /\ loop' = [loop EXCEPT ![p] =
                     [i |-> i,
                      started |-> IF i = 1 THEN now ELSE loop[p].started,
                      forecasts |-> forecasts,
                      stats |-> Append(loop[p].stats,
                                       CurrentStats(current_month_transactions)),
                      loaded |-> loop[p].loaded \cup
                                   {[id |-> r.id, amount |-> r.amount,
                                     category |-> r.category] :
                                       r \in current_month_transactions}]]
               /\ pc' = [pc EXCEPT ![p] = IF i = req[p].months_ahead THEN "done"
                                          ELSE "looping"]
               /\ result' = [result EXCEPT ![p] =
                                IF i = req[p].months_ahead THEN Ok("forecast", forecasts)
                                ELSE result[p]]
    /\ UNCHANGED <<savings_goals, now, transactions, store, req, predictor, train_outcome, bp, call>>

\* Rows that requests made during the run: ids after those of the ledger.
FirstNewId == 10 * NumUsers + 10
Created(rows) == {r \in rows : r.id >= FirstNewId}

\* POST /transactions: TransactionService.create_transaction with no date
\* given (datetime.utcnow()).
create_transaction(current_user, amount, category, type) ==
    /\ Cardinality(Created(transactions)) < MaxCreated
    /\ transactions' = transactions \cup
         {[id |-> FirstNewId + Cardinality(Created(transactions)),
           user_id |-> current_user, amount |-> amount, category |-> category,
           type |-> type, date |-> now, is_active |-> TRUE]}
    /\ UNCHANGED <<savings_goals, now, store, pc, req, predictor, train_outcome, result, bp, call, loop>>

\* PUT /transactions/{id}: TransactionService.update_transaction finds the
\* row by id alone, sets the fields given and commits; the route looks at
\* the owner only afterwards.
update_transaction(current_user, transaction_id, amount, category) ==
    /\ \E r \in transactions :
         /\ r.id = transaction_id
         /\ transactions' = (transactions \ {r}) \cup
                               {[r EXCEPT !.amount = amount, !.category = category]}
    /\ UNCHANGED <<savings_goals, now, store, pc, req, predictor, train_outcome, result, bp, call, loop>>

\* DELETE /transactions/{id}: the caller's own row (404 otherwise) is
\* soft-deleted.
delete_transaction(current_user, transaction_id) ==
    /\ \E r \in transactions :
         /\ r.id = transaction_id
         /\ r.user_id = current_user
         /\ transactions' = (transactions \ {r}) \cup {[r EXCEPT !.is_active = FALSE]}
    /\ UNCHANGED <<savings_goals, now, store, pc, req, predictor, train_outcome, result, bp, call, loop>>

\* Midnight at the end of a month.
Tick ==
    /\ now % DaysPerMonth = DaysPerMonth - 1
    /\ now' = now + 1
    /\ UNCHANGED <<savings_goals, transactions, store, pc, req, predictor, train_outcome, result, bp,
                   call, loop>>

\* One forecast request runs; the requests beside it are the writers below.
Forecaster == 1

\* What the concurrent requests send.
NewAmounts == {250000}
NewCategories == {"Travel"}
EditIds == {10 * u + 1 : u \in Users} \cup {FirstNewId}

\* The last day of November and of December of year 6.
ForecastDays == {FirstOfMonth(6, 11) + 29, FirstOfMonth(6, 12) + 29}

InitForecast ==
    /\ now \in ForecastDays
    /\ \E k \in [Users -> 0..MaxRows] : transactions = Ledger(k, now)
    /\ store = NoArtifact
    /\ IdleRequests
    /\ bp = [pred |-> NewPredictor, inst |-> 1]
    /\ call = NoCall

NextForecast ==
    \/ \E u \in Users, n \in (0 - 1)..MaxAhead : Construct(Forecaster, "forecast", u, n)
    \/ TrainForUser(Forecaster)
    \/ SaveEnd(Forecaster)
    \/ ForecastStep(Forecaster)
    \/ \E u \in Users, a \in NewAmounts, c \in NewCategories :
         create_transaction(u, a, c, "expense")
    \/ \E u \in Users, id \in EditIds, a \in NewAmounts, c \in NewCategories :
         update_transaction(u, id, a, c)
    \/ \E u \in Users, id \in EditIds : delete_transaction(u, id)
    \/ Tick

SpecForecast == InitForecast /\ [][NextForecast]_vars

\* ------------------------------- the transaction routes and their answers
\* Requests to /transactions one after the other, each with its response.
\* call holds the last request: who asked, for which id, the status of the
\* response, and what the row of that id held before the request.
NoStored == [amount |-> NoArg, category |-> "none"]

StoredBefore(rows, transaction_id) ==
    IF \E r \in rows : r.id = transaction_id
    THEN LET r == CHOOSE r \in rows : r.id = transaction_id
         IN  [amount |-> r.amount, category |-> r.category]
    ELSE NoStored

Answered(op, current_user, transaction_id, status) ==
    [op |-> op, current_user |-> current_user, transaction_id |-> transaction_id,
     status |-> status, before |-> StoredBefore(transactions, transaction_id)]

\* POST /transactions/
PostTransaction(current_user, amount, category, type) ==
    /\ Cardinality(Created(transactions)) < MaxCreated
    /\ LET id == FirstNewId + Cardinality(Created(transactions))
       IN  /\ transactions' = transactions \cup
                 {[id |-> id, user_id |-> current_user, amount |-> amount,
                   category |-> category, type |-> type, date |-> now,
                   is_active |-> TRUE]}
           /\ call' = Answered("POST", current_user, id, 200)
    /\ UNCHANGED <<savings_goals, now, store, pc, req, predictor, train_outcome, result, bp, loop>>

\* GET /transactions/{transaction_id}: the row of that id and of the caller.
GetTransaction(current_user, transaction_id) ==
    /\ LET found == {r \in transactions : /\ r.id = transaction_id
                                          /\ r.user_id = current_user}
       IN  call' = Answered("GET", current_user, transaction_id,
                            IF found = {} THEN 404 ELSE 200)
    /\ UNCHANGED <<savings_goals, now, transactions, store, pc, req, predictor, train_outcome, result,
                   bp, loop>>

\* PUT /transactions/{transaction_id}: service.update_transaction sets the
\* fields on the row of that id and commits; then the route answers 404 for
\* no row, 403 for a row of another user.
PutTransaction(current_user, transaction_id, amount, category) ==
    /\ LET found == {r \in transactions : r.id = transaction_id}
       IN  IF found = {} THEN
               /\ call' = Answered("PUT", current_user, transaction_id, 404)
               /\ UNCHANGED transactions
           ELSE
               LET r == CHOOSE r \in found : TRUE
               IN  /\ transactions' = (transactions \ {r}) \cup
                         {[r EXCEPT !.amount = amount, !.category = category]}
                   /\ call' = Answered("PUT", current_user, transaction_id,
                                       IF r.user_id # current_user THEN 403 ELSE 200)
    /\ UNCHANGED <<savings_goals, now, store, pc, req, predictor, train_outcome, result, bp, loop>>

\* DELETE /transactions/{transaction_id}: 404 unless the caller has a row
\* of that id; service.delete_transaction sets is_active = False.
DeleteTransaction(current_user, transaction_id) ==
    /\ LET found == {r \in transactions : /\ r.id = transaction_id
                                          /\ r.user_id = current_user}
       IN  IF found = {} THEN
               /\ call' = Answered("DELETE", current_user, transaction_id, 404)
               /\ UNCHANGED transactions
           ELSE
               LET r == CHOOSE r \in found : TRUE
               IN  /\ transactions' = (transactions \ {r}) \cup
                         {[r EXCEPT !.is_active = FALSE]}
                   /\ call' = Answered("DELETE", current_user, transaction_id, 200)
    /\ UNCHANGED <<savings_goals, now, store, pc, req, predictor, train_outcome, result, bp, loop>>

TransactionTypes == {"expense", "income"}

\* Every user starts with expenses in three months.
InitTransactions ==
    /\ now = FirstOfMonth(6, 11) + 14
    /\ transactions = Ledger([u \in Users |-> MinMonths], now)
    /\ store = NoArtifact
    /\ IdleRequests
    /\ bp = [pred |-> NewPredictor, inst |-> 1]
    /\ call = NoCall

NextTransactions ==
    \/ \E u \in Users, a \in NewAmounts, c \in NewCategories, t \in TransactionTypes :
         PostTransaction(u, a, c, t)
    \/ \E u \in Users, id \in EditIds : GetTransaction(u, id)
    \/ \E u \in Users, id \in EditIds, a \in NewAmounts, c \in NewCategories :
         PutTransaction(u, id, a, c)
    \/ \E u \in Users, id \in EditIds : DeleteTransaction(u, id)

SpecTransactions == InitTransactions /\ [][NextTransactions]_vars

\* --------------------------- one prediction request over a changing ledger
\* A budget, forecast or train-model request at any point of a sequence of
\* committed creates, updates and soft deletes.
\* The model file an earlier POST /train-model of user 1 has left.
EarlierArtifact(rows, today) ==
    [state |-> "valid",
     model |-> joblib_dump(
                 TrainLocal(NewPredictor,
                            get_historical_transactions(rows, today, 1)).pred.model),
     torn |-> FALSE]

\* The ledger of three months for every user, with or without a model file
\* from an earlier training.
InitLedger ==
    /\ now = FirstOfMonth(6, 11) + 14
    /\ transactions = Ledger([u \in Users |-> MinMonths], now)
    /\ store \in {NoArtifact, EarlierArtifact(transactions, now)}
    /\ IdleRequests
    /\ bp = [pred |-> NewPredictor, inst |-> 1]
    /\ call = NoCall

\* The rows the updates and deletes go to: the newest expense of user 1 and
\* of user 2, and the first row created.
LedgerIds == {11, 21, FirstNewId}

NextLedger ==
    \/ \E u \in Users, a \in NewAmounts, c \in NewCategories, t \in TransactionTypes :
         create_transaction(u, a, c, t)
    \/ \E u \in Users, id \in LedgerIds, a \in NewAmounts, c \in NewCategories :
         update_transaction(u, id, a, c)
    \/ \E u \in Users, id \in LedgerIds : delete_transaction(u, id)
    \/ \E e \in Endpoints, u \in Users, n \in 0..1 : Construct(Forecaster, e, u, n)
    \/ TrainForUser(Forecaster)
    \/ SaveEnd(Forecaster)
    \/ Predict(Forecaster)

SpecLedger == InitLedger /\ [][NextLedger]_vars

\* ---------------------------------------------------- savings goals
\* POST /goals/, POST /goals/{id}/add-amount, PUT /goals/{id} and the
\* scheduler's hourly check_expired_goals, each a committed step.
GoalOf(current_user, goal_id) ==
    {g \in savings_goals : g.id = goal_id /\ g.user_id = current_user}

\* POST /goals/: SavingsGoalCreate wants target_amount > 0 and a
\* target_date after today; the columns' defaults give the rest.
create_savings_goal(current_user, target_amount, target_date) ==
    /\ Cardinality(savings_goals) < MaxGoals
    /\ target_amount > 0
    /\ target_date > now
    /\ savings_goals' = savings_goals \cup
         {[id |-> Cardinality(savings_goals) + 1, user_id |-> current_user,
           target_amount |-> target_amount, current_amount |-> 0,
           target_date |-> target_date, is_locked |-> TRUE,
           is_completed |-> FALSE, unlocked_at |-> NoArg]}
    /\ UNCHANGED <<now, transactions, store, pc, req, predictor, train_outcome, result,
                   bp, call, loop>>

\* POST /goals/{goal_id}/add-amount: 404 without a goal of the caller, 400
\* for an amount that is not positive.
add_amount_to_goal(current_user, goal_id, amount) ==
    /\ \E goal \in GoalOf(current_user, goal_id) :
         /\ amount > 0
         /\ goal.current_amount + amount <= MaxDeposits * amount
         /\ LET current_amount == goal.current_amount + amount
                reached == current_amount >= goal.target_amount
            IN  savings_goals' = (savings_goals \ {goal}) \cup
                  {[goal EXCEPT !.current_amount = current_amount,
                                !.is_completed = IF reached THEN TRUE ELSE @,
                                !.is_locked = IF reached THEN TRUE ELSE @]}
    /\ UNCHANGED <<now, transactions, store, pc, req, predictor, train_outcome, result,
                   bp, call, loop>>

\* PUT /goals/{goal_id}: 404 without a goal of the caller, 400 for a goal
\* that is locked and completed; otherwise every field sent is set
\* (SavingsGoalUpdate validates none of them).
update_savings_goal(current_user, goal_id, target_amount, target_date) ==
    /\ \E goal \in GoalOf(current_user, goal_id) :
         /\ ~(goal.is_locked /\ goal.is_completed)
         /\ savings_goals' = (savings_goals \ {goal}) \cup
               {[goal EXCEPT !.target_amount = OrDefault(target_amount, @),
                             !.target_date = OrDefault(target_date, @)]}
    /\ UNCHANGED <<now, transactions, store, pc, req, predictor, train_outcome, result,
                   bp, call, loop>>

\* check_expired_goals: every locked goal that is not completed and whose
\* target date has come is unlocked, and completed when its amount reaches
\* the target.
check_expired_goals ==
    /\ LET expired_goals == {g \in savings_goals : /\ g.is_locked
                                                   /\ g.target_date <= now
                                                   /\ ~g.is_completed}
       IN  /\ expired_goals # {}
           /\ savings_goals' = (savings_goals \ expired_goals) \cup
                 {[g EXCEPT !.is_locked = FALSE, !.unlocked_at = now,
                            !.is_completed = IF g.current_amount >= g.target_amount
                                             THEN TRUE ELSE @] :
                    g \in expired_goals}
    /\ UNCHANGED <<now, transactions, store, pc, req, predictor, train_outcome, result,
                   bp, call, loop>>

\* What the goal requests send: targets of 50.00 and 100.00, deposits of
\* 50.00, the first of December of year 6 as target date.
GoalAmounts == {5000, 10000}
Deposits == {5000}
GoalDates == {FirstOfMonth(6, 12)}

\* The last day of November of year 6, no goal yet.
InitGoals ==
    /\ now = FirstOfMonth(6, 11) + 29
    /\ transactions = {}
    /\ store = NoArtifact
    /\ IdleRequests
    /\ bp = [pred |-> NewPredictor, inst |-> 1]
    /\ call = NoCall

NextGoals ==
    \/ \E u \in Users, a \in GoalAmounts, d \in GoalDates : create_savings_goal(u, a, d)
    \/ \E u \in Users, id \in 1..MaxGoals, a \in Deposits : add_amount_to_goal(u, id, a)
    \/ \E u \in Users, id \in 1..MaxGoals, a \in GoalAmounts \cup {NoArg},
          d \in GoalDates \cup {NoArg} : update_savings_goal(u, id, a, d)
    \/ check_expired_goals
    \/ Tick

SpecGoals == InitGoals /\ [][NextGoals]_vars

\* ------------------------------------------- a script on one predictor
\* test_predictor_standalone.py and debug scripts use BudgetPredictor
\* directly: any method, in any order, on records of the caller's choosing.
ProbeRow(i, today) ==
    [id |-> i,
     amount |-> IF i = 5 THEN INF ELSE i * 100000,
     category |-> IF i % 2 = 1 THEN "Food" ELSE "Rent",
     date |-> IF i = 1 THEN today - 1 ELSE today - DaysPerMonth * (i - 2)]

\* Records i..j of the series: the first two fall in the current month, each
\* later one a month earlier; the fifth has a non-finite amount.
ProbeRange(i, j) == {ProbeRow(x, now) : x \in i..j}

ProbeMonths == {1, MonthsPerYear}
ProbeYears == {YearOf(now), YearOf(now) + 2}
ProbeAvg == {NoArg, 150000, INF}
ProbeDiversity == {NoArg, 1}
ProbeCount == {NoArg, 0}

InitPredictor ==
    /\ now = FirstOfMonth(6, 11) + 14
    /\ transactions = {}
    /\ store = NoArtifact
    /\ IdleRequests
    /\ bp = [pred |-> NewPredictor, inst |-> 1]
    /\ call = NoCall

\* BudgetPredictor(model_path): another instance on the same path.
ScriptNew ==
    /\ bp.inst < MaxInstances
    /\ bp' = [pred |-> NewPredictor, inst |-> bp.inst + 1]
    /\ call' = [NoCall EXCEPT !.op = "__init__"]
    /\ UNCHANGED <<savings_goals, now, transactions, store, pc, req, predictor, train_outcome, result, loop>>

ScriptLoad ==
    /\ LET l == load_model(bp.pred, store)
       IN  /\ bp' = [bp EXCEPT !.pred = l.pred]
           /\ call' = [NoCall EXCEPT !.op = "load_model", !.before = bp.pred,
                                     !.ret = l.ret, !.raised = l.raised]
    /\ UNCHANGED <<savings_goals, now, transactions, store, pc, req, predictor, train_outcome, result, loop>>

\* PredictionService(db, model_path): a new BudgetPredictor on the path and
\* load_existing_model; when the load raises there is no service.
ScriptService ==
    /\ bp.inst < MaxInstances
    /\ LET l == load_model(NewPredictor, store)
       IN  /\ bp' = IF l.raised THEN bp ELSE [pred |-> l.pred, inst |-> bp.inst + 1]
           /\ call' = [NoCall EXCEPT !.op = "PredictionService", !.ret = l.ret,
                                     !.raised = l.raised]
    /\ UNCHANGED <<savings_goals, now, transactions, store, pc, req, predictor, train_outcome, result, loop>>

\* What the caller passed: which records, how many, in how many calendar
\* months, and whether every amount is a finite number.
Called(op, rows) ==
    [NoCall EXCEPT !.op = op,
                   !.ids = {r.id : r \in rows},
                   !.before = bp.pred,
                   !.records = Cardinality(rows),
                   !.months = Cardinality({<<YearOf(r.date), MonthOf(r.date)>> : r \in rows}),
                   !.finite = \A r \in rows : IsFinite(r.amount)]

\* train_model(rows) as one step: nothing else touches the file while a
\* script saves.  save_model may fail before or while it writes.
TrainCall(op, rows) ==
    LET t == TrainLocal(bp.pred, rows)
    IN  /\ bp' = [bp EXCEPT !.pred = t.pred]
        /\ IF t.outcome # "fitted" THEN
               /\ call' = [Called(op, rows) EXCEPT !.outcome = t.outcome, !.raised = TRUE]
               /\ UNCHANGED store
           ELSE \E opened, written \in BOOLEAN :
               /\ store' \in IF opened
                             THEN AfterDump(OpenForWrite(FALSE), t.pred.model, written, FALSE)
                             ELSE {store}
               /\ call' = [Called(op, rows) EXCEPT
                             !.outcome = IF opened /\ written THEN "saved" ELSE "save_failed",
                             !.raised = ~(opened /\ written),
                             !.metrics = IF opened /\ written THEN t.metrics ELSE NoMetrics]
        /\ UNCHANGED <<savings_goals, now, transactions, pc, req, predictor, train_outcome, result, loop>>

ScriptTrain(rows) == TrainCall("train_model", rows)

\* retrain_with_new_data(old, new): train_model(old + new).
ScriptRetrain(old_transactions, new_transactions) ==
    /\ old_transactions \cap new_transactions = {}
    /\ new_transactions # {}
    /\ TrainCall("retrain_with_new_data", old_transactions \cup new_transactions)

ScriptPredict(month, year, avg_amount, category_diversity, transaction_count) ==
    /\ LET out == predict_budget(bp.pred, month, year, avg_amount,
                                 category_diversity, transaction_count)
       IN  /\ bp' = [bp EXCEPT !.pred = out.pred]
           /\ call' = [NoCall EXCEPT
                         !.op = "predict_budget",
                         !.before = bp.pred,
                         !.args = <<month, year, avg_amount, category_diversity,
                                    transaction_count>>,
                         !.value = out.value, !.consulted = out.consulted,
                         !.failed = out.failed, !.raised = out.raised]
    /\ UNCHANGED <<savings_goals, now, transactions, store, pc, req, predictor, train_outcome, result, loop>>

NextPredictor ==
    \/ ScriptNew
    \/ ScriptLoad
    \/ ScriptService
    \/ \E i \in 1..MaxProbe, j \in 0..MaxProbe : ScriptTrain(ProbeRange(i, j))
    \/ \E j \in 0..MaxProbe, k \in 1..MaxProbe :
         ScriptRetrain(ProbeRange(1, j), ProbeRange(j + 1, k))
    \/ \E m \in ProbeMonths, y \in ProbeYears, a \in ProbeAvg,
          d \in ProbeDiversity, c \in ProbeCount : ScriptPredict(m, y, a, d, c)

SpecPredictor == InitPredictor /\ [][NextPredictor]_vars

\* ------------------------------- the computations on their own
\* The date arithmetic, the recommendation rule and prepare_features
\* applied to values of the caller's choosing.
CalcTarget(current_month, current_year, i) ==
    /\ call' = [op |-> "target", current_month |-> current_month,
                current_year |-> current_year, i |-> i,
                next |-> NextMonthTarget(current_month, current_year),
                target |-> NormalizeMonth(current_month + i, current_year)]
    /\ UNCHANGED <<savings_goals, now, transactions, store, pc, req, predictor, train_outcome, result,
                   bp, loop>>

CalcRecommendation(predicted_budget, current_month_expense) ==
    /\ call' = [op |-> "recommendation", predicted_budget |-> predicted_budget,
                current_month_spending |-> current_month_expense,
                recommendation |-> Recommendation(predicted_budget,
                                                  current_month_expense)]
    /\ UNCHANGED <<savings_goals, now, transactions, store, pc, req, predictor, train_outcome, result,
                   bp, loop>>

\* Records for prepare_features: the first three in January of year 6 (two
\* of one category), the fourth two months before, the others from twelve
\* months before on backwards, so that months without records lie between
\* and a month number comes back in another year.
MonthsBack(i) == IF i <= 3 THEN 0 ELSE IF i = 4 THEN 2 ELSE 7 + i
FeatureRecord(i) ==
    [id |-> i, amount |-> 10001 * i,
     category |-> IF i = 3 \/ i % 2 = 0 THEN "Rent" ELSE "Food",
     date |-> FirstOfMonth(6, 1) + i - DaysPerMonth * MonthsBack(i)]

\* prepare_features(transactions) on the records numbered ids; no records:
\* ValueError.
CalcFeatures(ids) ==
    /\ LET rows == {FeatureRecord(i) : i \in ids}
       IN  call' = [op |-> "prepare_features", ids |-> ids, raised |-> rows = {},
                    X |-> prepare_features(rows).X, y |-> prepare_features(rows).y]
    /\ UNCHANGED <<savings_goals, now, transactions, store, pc, req, predictor, train_outcome, result,
                   bp, loop>>

\* Records for the training split: one a month, the i-th i - 1 months
\* before January of year 6.
SplitRecord(i) ==
    [id |-> i, amount |-> 100000 + 10000 * (i % 4) + i,
     category |-> IF i % 2 = 1 THEN "Food" ELSE "Rent",
     date |-> FirstOfMonth(6, 1) + 9 - DaysPerMonth * (i - 1)]

\* train_model on n months of records, up to the metrics it reports.
CalcTrain(n) ==
    /\ LET t == TrainLocal(NewPredictor, {SplitRecord(i) : i \in 1..n})
       IN  call' = [op |-> "train_model", months |-> n, outcome |-> t.outcome,
                    training_samples |-> t.metrics.training_samples,
                    test_samples |-> t.metrics.test_samples]
    /\ UNCHANGED <<savings_goals, now, transactions, store, pc, req, predictor, train_outcome, result,
                   bp, loop>>

CalcMonths == 1..MonthsPerYear
CalcYears == {2024, 2025}
CalcAmounts == {0, 85000, 100000, 105000, 110000, 115000, DefaultBudget}

InitCalc == InitPredictor

NextCalc ==
    \/ \E m \in CalcMonths, y \in CalcYears, i \in 1..MaxOffset : CalcTarget(m, y, i)
    \/ \E p \in CalcAmounts, c \in CalcAmounts : CalcRecommendation(p, c)
    \/ \E ids \in SUBSET (1..MaxRecords) : CalcFeatures(ids)
    \/ \E n \in 0..MaxMonths : CalcTrain(n)

SpecCalc == InitCalc /\ [][NextCalc]_vars

\* ================================================================ claims
\* The feature vector of the script's last predict_budget call.
CallFeature ==
    PredictionFeatures(call.args[1], call.args[2],
                       OrDefault(call.args[3], DefaultAvgAmount),
                       OrDefault(call.args[4], DefaultCategoryDiversity),
                       OrDefault(call.args[5], DefaultTransactionCount))

IsTrainCall == call.op \in {"train_model", "retrain_with_new_data"}

\* C1: predict_budget on a predictor whose is_trained flag is false returns
\* exactly 10000.0, whatever the month, the year and the optional inputs
\* (given or left out), and does not call the model.
C1_UntrainedReturnsDefault ==
    (call.op = "predict_budget" /\ ~call.before.is_trained)
        => (call.value = DefaultBudget /\ ~call.consulted /\ ~call.raised)

\* C1 witness: an untrained predictor that nevertheless holds a fitted
\* pipeline (training stopped in the evaluation) is asked with the optional
\* inputs given.
C1_Witness ==
    /\ call.op = "predict_budget"
    /\ ~call.before.is_trained
    /\ call.before.model.kind = "fitted"
    /\ call.args[3] # NoArg /\ call.args[4] # NoArg /\ call.args[5] # NoArg

\* C2: whatever the state of the predictor (untrained, trained, loaded,
\* after a failed retrain) and whatever the features, predict_budget returns
\* a value >= 0, also when the regression output is negative.
C2_PredictionNonNegative ==
    call.op = "predict_budget" => call.value >= 0

\* C2 witness: a trained predictor whose regression output for the features
\* is negative returns 0.
C2_Witness ==
    /\ call.op = "predict_budget"
    /\ call.before.is_trained
    /\ ~call.failed
    /\ Raw(call.before.model, CallFeature) < 0
    /\ call.value = 0

\* C3: predict_budget never lets an exception out: when running the model on
\* the features fails, the call returns 10000.0, and the call leaves model
\* and is_trained as they were.
C3_InferenceErrorAbsorbed ==
    call.op = "predict_budget"
        => /\ ~call.raised
           /\ call.failed => call.value = DefaultBudget
           /\ bp.pred = call.before

\* C3 witness: inference failed on a trained predictor holding a fitted model.
C3_Witness ==
    /\ call.op = "predict_budget"
    /\ call.failed
    /\ call.before.is_trained
    /\ call.before.model.kind = "fitted"

\* C4: for one predictor instance, once is_trained is true it stays true and
\* the predictor holds a model, across load_model, train_model (succeeding
\* or failing), retrain_with_new_data and predict_budget.
C4_TrainedStaysTrained ==
    /\ [](bp.pred.is_trained => bp.pred.model # None)
    /\ [][(bp'.inst = bp.inst /\ bp.pred.is_trained)
            => (bp'.pred.is_trained /\ bp'.pred.model # None)]_vars

\* C4 witness: a trained predictor after a retrain that raised.
C4_Witness ==
    /\ call.op = "retrain_with_new_data"
    /\ call.raised
    /\ call.before.is_trained
    /\ bp.pred.is_trained

\* C5: train_model raises the insufficient-data error when the records are
\* empty or fall into fewer than 3 (year, month) buckets, and leaves the
\* predictor alone; with records in exactly 3 buckets (all amounts finite)
\* it raises no such error, fits and sets is_trained, and returns the
\* metrics of a 2/1 split unless writing the model file fails.
C5_ThreeMonthsThreshold ==
    IsTrainCall =>
        /\ call.months < 3 =>
             /\ call.raised
             /\ call.outcome = (IF call.records = 0 THEN "no_transactions"
                                ELSE "need_3_months")
             /\ bp.pred = call.before
        /\ call.months >= 3 => call.outcome \notin {"no_transactions", "need_3_months"}
        /\ (call.months = 3 /\ call.finite) =>
             /\ bp.pred.is_trained
             /\ call.outcome \in {"saved", "save_failed"}
             /\ call.outcome = "saved" =>
                  /\ ~call.raised
                  /\ call.metrics.training_samples = 2
                  /\ call.metrics.test_samples = 1

\* C5 witness: four records in exactly three months trained and returned
\* metrics.
C5_Witness ==
    /\ call.op = "train_model"
    /\ call.months = 3
    /\ call.records = 4
    /\ call.outcome = "saved"
    /\ bp.pred.is_trained

Finished(p, endpoints) == pc[p] = "done" /\ req[p].endpoint \in endpoints

\* The months the user's training records fall into.
HistoryMonths(u) ==
    {<<YearOf(r.date), MonthOf(r.date)>> :
        r \in get_historical_transactions(transactions, now, u)}

\* Every predicted_budget of a response is the default.
AllDefault(res) ==
    /\ res.what = "prediction" => res.body.predicted_budget = DefaultBudget
    /\ res.what = "forecast" =>
         \A i \in 1..Len(res.body) : res.body[i].predicted_budget = DefaultBudget

\* C6: train_model_for_user returns the {message, training_samples} result,
\* without raising, whenever the user's expense records are too few to train
\* on (none, or fewer than 3 months of them), and returns fit metrics only
\* when training ran.
C6_InsufficientDataIsReported ==
    \A p \in Procs :
        (Finished(p, {"train"}) /\ train_outcome[p] # "none") =>
            /\ Cardinality(HistoryMonths(req[p].user_id)) < 3
                 => (result[p].status = "ok" /\ result[p].what = "message")
            /\ result[p].what = "metrics" => train_outcome[p] = "saved"

\* C7: a budget or forecast request whose auto-training fails still answers:
\* the failure is caught, the predictor stays untrained and every
\* predicted_budget is 10000.0.
C7_FailedAutoTrainFallsBack ==
    \A p \in Procs :
        (/\ Finished(p, {"budget", "forecast"})
         /\ train_outcome[p] \in {"message", "no_transactions", "need_3_months",
                                  "fit_error", "eval_error", "save_failed"})
        => /\ result[p].status = "ok"
           /\ ~predictor[p].is_trained
           /\ AllDefault(result[p])

\* C8: a budget or forecast request returns a prediction, never an error,
\* whatever the state of the model file (absent, valid, unreadable, being
\* written by a concurrent training) and whatever the ledger holds.
C8_PredictionNeverFails ==
    \A p \in Procs :
        Finished(p, {"budget", "forecast"}) => result[p].status = "ok"

\* The predictors a user's own records can give: none trained, or the one
\* trained on the user's history.
OwnPredictors(u) ==
    LET t == TrainLocal(NewPredictor,
                        get_historical_transactions(transactions, now, u))
    IN  {NewPredictor} \cup (IF t.outcome = "fitted" THEN {t.pred} ELSE {})

\* C9: what a user is predicted depends on no other user's records or
\* training runs: the response is one the user's own records account for
\* (the default, or the output of a model fitted on the user's own history).
\* A response outside that set changes when only the other user's records
\* are taken away, since then no model but the user's own can be loaded.
C9_NoCrossUserInfluence ==
    \A p \in Procs :
        (Finished(p, {"budget", "forecast"}) /\ result[p].status = "ok") =>
            \E q \in OwnPredictors(req[p].user_id) :
                result[p].body =
                    IF req[p].endpoint = "budget"
                    THEN predict_next_month_budget(q, transactions, now, req[p].user_id)
                    ELSE get_forecast_points(q, transactions, now, req[p].user_id,
                                             req[p].months_ahead)

\* C10: no two save_model calls are inside the write of the one model file
\* at the same time.
C10_SavesDoNotInterleave ==
    Cardinality({p \in Procs : pc[p] = "saving"}) <= 1

\* C11: from a current month m (1..12) of year y, the target of the
\* next-month prediction (offset 1) and of forecast pass i (any i >= 1) is a
\* month in 1..12 with 12 * target_year + target_month = 12 * y + m + i:
\* December rolls over into January of the next year, and offsets beyond 12
\* roll over several years.
C11_TargetMonthRollsOver ==
    call.op = "target" =>
        /\ call.target.month \in 1..12
        /\ 12 * call.target.year + call.target.month
             = 12 * call.current_year + call.current_month + call.i
        /\ call.i = 1 =>
             /\ call.next.month \in 1..12
             /\ 12 * call.next.year + call.next.month
                  = 12 * call.current_year + call.current_month + 1

\* C11 witness: from December an offset of more than two years lands three
\* calendar years later.
C11_Witness ==
    /\ call.op = "target"
    /\ call.current_month = 12
    /\ call.i > 24
    /\ call.target.year = call.current_year + 3

\* C12: a finished forecast request for N months holds exactly N points
\* (none for N <= 0); point i is the i-th calendar month after the month the
\* request ran in (so the first is the next month and each later one
\* follows its predecessor), and every predicted_budget is >= 0.
C12_ForecastPointsConsecutive ==
    \A p \in Procs :
        (Finished(p, {"forecast"}) /\ result[p].status = "ok") =>
            LET forecasts == result[p].body
            IN  /\ Len(forecasts) = Max(0, req[p].months_ahead)
                /\ \A i \in 1..Len(forecasts) :
                     /\ forecasts[i].predicted_budget >= 0
                     /\ MonthIndex(forecasts[i].year, forecasts[i].month)
                          = BucketOf(loop[p].started) + i

\* C13: for all amounts p = predicted_budget >= 0 and c =
\* current_month_spending >= 0 the recommendation is "Increase" exactly when
\* p > 1.1 c, "Maintain" exactly when that fails and |p - c| < 0.1 c, and
\* "Reduce" in every other case; with c = 1000: Increase at 1150, Maintain
\* at 1050, Reduce at 850.
C13_RecommendationRule ==
    call.op = "recommendation" =>
        LET p == call.predicted_budget
            c == call.current_month_spending
            increase == 10 * p > 11 * c
            within == 10 * p - 10 * c < c /\ 10 * c - 10 * p < c
        IN  /\ call.recommendation = "Increase" <=> increase
            /\ call.recommendation = "Maintain" <=> (~increase /\ within)
            /\ call.recommendation = "Reduce" <=> (~increase /\ ~within)
            /\ (c = 100000 /\ p = 115000) => call.recommendation = "Increase"
            /\ (c = 100000 /\ p = 105000) => call.recommendation = "Maintain"
            /\ (c = 100000 /\ p = 85000) => call.recommendation = "Reduce"

\* C13 witness: 1050 predicted against 1000 spent is "Maintain".
C13_Witness ==
    /\ call.op = "recommendation"
    /\ call.current_month_spending = 100000
    /\ call.predicted_budget = 105000
    /\ call.recommendation = "Maintain"

\* C14: "Reduce" is recommended only when the predicted budget is lower than
\* the current month's spending: for predicted_budget >= current spending
\* (greater, or both equal) the recommendation is not "Reduce".
C14_ReduceOnlyWhenLower ==
    (call.op = "recommendation"
       /\ call.predicted_budget >= call.current_month_spending)
        => call.recommendation # "Reduce"

\* C15: all passes of one forecast request hand predict_budget the same
\* (avg_amount, category_diversity, transaction_count), whatever other
\* requests create, update or soft-delete meanwhile.
C15_ForecastReusesOneStatistics ==
    \A p \in Procs :
        \A i, j \in 1..Len(loop[p].stats) : loop[p].stats[i] = loop[p].stats[j]

C17_LoadReflectsArtifact ==
    /\ call.op = "load_model" =>
         /\ store.state = "absent" =>
              /\ ~call.raised
              /\ ~call.ret
              /\ bp.pred = call.before
              /\ call.before = NewPredictor =>
                   (~bp.pred.is_trained /\ bp.pred.model = None)
         /\ store.state = "valid" =>
              /\ ~call.raised
              /\ call.ret
              /\ bp.pred.is_trained
              /\ bp.pred.model = joblib_load(store.model)
    /\ (call.op = "PredictionService" /\ ~call.raised) =>
         /\ bp.pred.is_trained <=> store.state # "absent"
         /\ call.ret <=> bp.pred.is_trained

\* C17 witness: a service constructed on a path that holds an artifact.
C17_Witness ==
    /\ call.op = "PredictionService"
    /\ ~call.raised
    /\ store.state = "valid"
    /\ bp.pred.is_trained
    /\ bp.pred.model.kind = "fitted"

\* C18: a request whose training cycle ended in a failed save_model ends
\* with an error, be it the train-model request or a budget or forecast
\* request that trained on its own.
C18_SaveFailureIsSurfaced ==
    \A p \in Procs :
        (pc[p] = "done" /\ train_outcome[p] = "save_failed")
            => result[p].status = "error"

\* Column k of the feature matrix, added up.
RECURSIVE SumAt(_, _)
SumAt(X, k) ==
    IF X = << >> THEN 0 ELSE Head(X)[k] + SumAt(Tail(X), k)

\* C19: prepare_features gives exactly one row for every (year, month) that
\* has a record and none for any other month; each row's transaction_count
\* is the number of records of its month (so >= 1, and the counts add up to
\* the number of records), and 1 <= category_diversity <= transaction_count.
C19_OneRowPerMonthWithRecords ==
    (call.op = "prepare_features" /\ ~call.raised) =>
        LET rows == {FeatureRecord(i) : i \in call.ids}
            X == call.X
            months == {<<YearOf(r.date), MonthOf(r.date)>> : r \in rows}
        IN  /\ Len(X) = Cardinality(months)
            /\ {<<X[i][YearAt], X[i][MonthAt]>> : i \in 1..Len(X)} = months
            /\ \A i \in 1..Len(X) :
                 /\ X[i][TransactionCountAt] >= 1
                 /\ X[i][TransactionCountAt] =
                      Cardinality({r \in rows : /\ YearOf(r.date) = X[i][YearAt]
                                                /\ MonthOf(r.date) = X[i][MonthAt]})
                 /\ 1 <= X[i][CategoryDiversityAt]
                 /\ X[i][CategoryDiversityAt] <= X[i][TransactionCountAt]
            /\ SumAt(X, TransactionCountAt) = Cardinality(rows)

\* C19 witness: five records in three months that are not adjacent, three
\* of them (two categories) in one month.
C19_Witness ==
    /\ call.op = "prepare_features"
    /\ call.ids = 1..5
    /\ Len(call.X) = 3
    /\ \E i \in 1..3 : call.X[i][TransactionCountAt] = 3
                           /\ call.X[i][CategoryDiversityAt] = 2

C21_SplitCounts ==
    (call.op = "train_model" /\ call.months >= 3) =>
        /\ call.outcome = "fitted"
        /\ call.training_samples + call.test_samples = call.months
        /\ 5 * call.test_samples >= call.months
        /\ 5 * (call.test_samples - 1) < call.months
        /\ call.test_samples >= 1
        /\ call.training_samples >= 1
        /\ call.months = 4 => (call.training_samples = 3 /\ call.test_samples = 1)

\* C21 witness: six months split into four training and two test rows.
C21_Witness ==
    /\ call.op = "train_model"
    /\ call.months = 6
    /\ call.training_samples = 4
    /\ call.test_samples = 2

\* The records of the script's last train_model call.
CallRows == {ProbeRow(x, now) : x \in call.ids}

SamePredictions(p, q) ==
    \A m \in ProbeMonths, y \in ProbeYears, a \in ProbeAvg,
       d \in ProbeDiversity, c \in ProbeCount :
        predict_budget(p, m, y, a, d, c).value = predict_budget(q, m, y, a, d, c).value

C23_DeletedTransactionNotFound ==
    (/\ call.op = "GET"
     /\ \E r \in transactions : /\ r.id = call.transaction_id
                                 /\ r.user_id = call.current_user
                                 /\ ~r.is_active)
        => call.status = 404

\* C28: a PUT on a transaction of another user is rejected (no 200), and
\* the row keeps the amount and category it had before the request.
C28_ForeignUpdateChangesNothing ==
    (/\ call.op = "PUT"
     /\ \E r \in transactions : /\ r.id = call.transaction_id
                                 /\ r.user_id # call.current_user)
        => /\ call.status # 200
           /\ \A r \in transactions :
                r.id = call.transaction_id =>
                    /\ r.amount = call.before.amount
                    /\ r.category = call.before.category

\* C24: a budget or forecast request whose predictor is trained when the
\* service has been constructed (an artifact was loaded) goes straight to
\* its answer: it starts no training, and its steps leave the model file
\* and its loaded model as they are, whatever the user's ledger holds.
C24_TrainedRequestDoesNotTrain ==
    [][\A p \in Procs :
         (/\ pc[p] = "constructed"
          /\ req[p].endpoint \in {"budget", "forecast"}
          /\ predictor[p].is_trained
          /\ pc'[p] # pc[p])
            => /\ pc'[p] = "done"
               /\ result'[p].status = "ok"
               /\ train_outcome'[p] = "none"
               /\ predictor'[p] = predictor[p]
               /\ store' = store]_vars

\* C24 witness: a budget request of a user with three months of expenses
\* answered from the loaded artifact without a training.
C24_Witness ==
    \E p \in Procs :
        /\ Finished(p, {"budget"})
        /\ result[p].status = "ok"
        /\ train_outcome[p] = "none"
        /\ predictor[p].is_trained
        /\ Cardinality(HistoryMonths(req[p].user_id)) >= MinMonths
        /\ store.state = "valid"
        /\ joblib_load(store.model) = predictor[p].model

\* C25: the records a training cycle passes to train_model are all the
\* (active) expense records of the user in the ledger, whatever their
\* date, and no record of another user or of type income.
C25_TrainingUsesAllHistory ==
    \A p \in Procs :
        train_outcome[p] \notin {"none", "message"} =>
            LET user_id == req[p].user_id
                fed == get_historical_transactions(transactions, now, user_id)
            IN  /\ \A r \in transactions :
                     (r.user_id = user_id /\ r.type = "expense" /\ r.is_active)
                         => r \in fed
                /\ \A r \in fed : r.user_id = user_id /\ r.type = "expense"

\* C26: a train_model (or retrain_with_new_data) call that raises leaves
\* is_trained, the model predict_budget uses and the file at model_path as
\* they were before the call.
C26_FailedTrainingChangesNothing ==
    [][(call'.op \in {"train_model", "retrain_with_new_data"} /\ call'.raised)
         => (bp'.pred = bp.pred /\ store' = store)]_vars

\* What predict_budget returns for the month when the optional inputs are
\* left out.
WithDefaults(pred, month, year) ==
    predict_budget(pred, month, year, NoArg, NoArg, NoArg).value

\* C27: for a user with no expense in the current calendar month, the
\* statistics both endpoints pass to predict_budget are the predictor's own
\* defaults (2000.0, 5, 20), and every predicted_budget of the response is
\* what predict_budget(month, year) returns with the optional inputs left
\* out.
C27_NoCurrentMonthMeansDefaults ==
    \A p \in Procs :
        (/\ Finished(p, {"budget", "forecast"})
         /\ result[p].status = "ok"
         /\ CurrentMonthRows(transactions, now, req[p].user_id) = {})
        => /\ CurrentStats({}) = [avg_amount |-> DefaultAvgAmount,
                                  category_diversity |-> DefaultCategoryDiversity,
                                  transaction_count |-> DefaultTransactionCount]
           /\ req[p].endpoint = "budget" =>
                result[p].body.predicted_budget
                  = WithDefaults(predictor[p], result[p].body.next_month,
                                 result[p].body.next_year)
           /\ req[p].endpoint = "forecast" =>
                \A i \in 1..Len(result[p].body) :
                    result[p].body[i].predicted_budget
                      = WithDefaults(predictor[p], result[p].body[i].month,
                                     result[p].body[i].year)

\* The rows that may count for a user: the user's own active expenses; and
\* those of them dated in the current calendar month.
Counted(rows, user_id) ==
    {r \in rows : r.user_id = user_id /\ r.type = "expense" /\ r.is_active}

CountedThisMonth(rows, user_id) ==
    {r \in Counted(rows, user_id) :
        YearOf(r.date) = YearOf(now) /\ MonthOf(r.date) = MonthOf(now)}

\* C29: whatever creates, updates and soft deletes came before, a request
\* trains and answers as if the table held only the user's own active
\* expenses: soft-deleted rows, incomes and other users' rows change neither
\* the training records, nor the current-month statistics, nor the
\* response, and current_month_spending is the sum of the user's active
\* expenses dated in the current calendar month (0 if none).
C29_ExcludedRowsContributeNothing ==
    [][\A p \in Procs :
         LET user_id == req[p].user_id
             clean == Counted(transactions, user_id)
             current == CountedThisMonth(transactions, user_id)
             history == {r \in clean : r.date >= now - HistoryMonthsBack * DaysPerMonth}
         IN  /\ (/\ pc[p] = "constructed"
                 /\ train_outcome[p] = "none"
                 /\ train_outcome'[p] # "none")
                => IF Cardinality(history) < MinRecords
                   THEN train_outcome'[p] = "message" /\ predictor'[p] = predictor[p]
                   ELSE /\ train_outcome'[p] # "message"
                        /\ predictor'[p] = TrainLocal(predictor[p], history).pred
             /\ (/\ pc[p] \in {"ready", "constructed"}
                 /\ pc'[p] = "done"
                 /\ result'[p].what \in {"prediction", "forecast"})
                => /\ CurrentStats(CurrentMonthRows(transactions, now, user_id))
                        = CurrentStats(current)
                   /\ result'[p].what = "prediction" =>
                        /\ result'[p].body.current_month_spending = SumAmounts(current)
                        /\ result'[p].body
                             = predict_next_month_budget(predictor[p], clean, now, user_id)
                   /\ result'[p].what = "forecast" =>
                        result'[p].body
                          = get_forecast_points(predictor[p], clean, now, user_id,
                                                req[p].months_ahead)]_vars

\* C29 witness: a budget request that trained and answered after the user
\* had soft-deleted the only expense of the current month and entered an
\* income: current_month_spending is 0.
C29_Witness ==
    \E p \in Procs :
        /\ Finished(p, {"budget"})
        /\ result[p].status = "ok"
        /\ train_outcome[p] # "none"
        /\ \E r \in transactions : /\ r.id = 10 * req[p].user_id + 1
                                    /\ ~r.is_active
        /\ \E r \in Created(transactions) : /\ r.user_id = req[p].user_id
                                             /\ r.type = "income"
        /\ CountedThisMonth(transactions, req[p].user_id) = {}
        /\ result[p].body.current_month_spending = 0

\* C30: every savings goal with is_completed true has current_amount >=
\* target_amount, and a goal that is completed stays completed, through
\* goal creation, add-amount, goal update and the scheduler's runs.
C30_CompletedGoalsAreFunded ==
    /\ [](\A g \in savings_goals :
            g.is_completed => g.current_amount >= g.target_amount)
    /\ [][\A g \in savings_goals : \A h \in savings_goals' :
            (g.is_completed /\ h.id = g.id) => h.is_completed]_vars

====
